---- MODULE Spec2Model ----
(***************************************************************************)
(* Per-user OAuth token lifecycle of the Slack bot: the hand-off token     *)
(* codec (auth_portal.create_jwt / validate_jwt), the authorization portal *)
(* (dashboard, callback, revoke) and the agent-side token consumer         *)
(* (worker_oauth, worker_atlassian_rest_tools, worker_agent).              *)
(***************************************************************************)
EXTENDS Integers, Sequences, FiniteSets, TLC

(***************************************************************************)
(* Part 1. Characters, bytes and text.                                     *)
(*                                                                         *)
(* A byte is a number 0..255.  A character of a token is a number: 0..63   *)
(* is the index of a character of the base64url alphabet, PAD is "=", DOT  *)
(* is ".", NONASCII stands for any character outside ASCII.                *)
(***************************************************************************)
PAD == 64
DOT == 65
NONASCII == 66

B64Alphabet == 0..63

None == "None"

\* json.dumps(header, separators=(",", ":")) of {"alg":"HS256","typ":"JWT"}
header_json ==
  <<123, 34, 97, 108, 103, 34, 58, 34, 72, 83, 50, 53, 54, 34, 44, 34, 116,
    121, 112, 34, 58, 34, 74, 87, 84, 34, 125>>

\* The UTF-8 bytes of the strings that occur as keys and values of claims.
StrBytes(s) ==
  CASE s = "slack_user_id" -> <<115, 108, 97, 99, 107, 95, 117, 115, 101, 114, 95, 105, 100>>
    [] s = "display_name"  -> <<100, 105, 115, 112, 108, 97, 121, 95, 110, 97, 109, 101>>
    [] s = "exp"           -> <<101, 120, 112>>
    [] s = "UA"            -> <<85, 65>>
    [] s = "UB"            -> <<85, 66>>
    [] s = "Al"            -> <<65, 108>>
    [] s = "A"             -> <<65>>
    [] s = "nonce"         -> <<110, 111, 110, 99, 101>>
    [] s = "n1"            -> <<110, 49>>
    [] s = "n2"            -> <<110, 50>>
    [] s = "n3"            -> <<110, 51>>
    [] s = ""              -> <<>>

RECURSIVE Digits(_)
\* Decimal text of a natural number, as json.dumps writes an int.
Digits(n) == IF n < 10 THEN <<48 + n>> ELSE Digits(n \div 10) \o <<48 + (n % 10)>>

\* One member of a claims map: key k with an int value n or a string value s.
NumEntry(k, n) == [k |-> k, isnum |-> TRUE, n |-> n, s |-> ""]
StrEntry(k, s) == [k |-> k, isnum |-> FALSE, n |-> 0, s |-> s]

JsonValue(e) ==
  IF e.isnum THEN Digits(e.n) ELSE <<34>> \o StrBytes(e.s) \o <<34>>

RECURSIVE JsonMembers(_, _)
JsonMembers(payload, sep) ==
  IF payload = <<>> THEN <<>>
  ELSE LET e == Head(payload)
           m == <<34>> \o StrBytes(e.k) \o <<34>> \o sep[2] \o JsonValue(e)
       IN  IF Len(payload) = 1 THEN m
           ELSE m \o sep[1] \o JsonMembers(Tail(payload), sep)

\* json.dumps of a dict (insertion order kept) with the given
\* (item separator, key separator).
JsonDumps(payload, sep) == <<123>> \o JsonMembers(payload, sep) \o <<125>>

CompactSep == << <<44>>, <<58>> >>
DefaultSep == << <<44, 32>>, <<58, 32>> >>

\* A dict as a map: the order of insertion does not count in ==.
AsMap(payload) == {payload[i] : i \in DOMAIN payload}
HasKey(payload, k) == \E i \in DOMAIN payload : payload[i].k = k
Get(payload, k) == LET i == CHOOSE j \in DOMAIN payload : payload[j].k = k IN payload[i]

(***************************************************************************)
(* base64.urlsafe_b64encode / urlsafe_b64decode (the decoder is binascii's *)
(* non-strict a2b_base64: characters outside the alphabet are dropped, a   *)
(* complete pad sequence ends the parse, pads at a quad boundary are       *)
(* skipped, an incomplete last quad is "Incorrect padding").               *)
(***************************************************************************)
B64Encode(bs) ==
  LET n == Len(bs)
      at(i) == IF i <= n THEN bs[i] ELSE 0
  IN  [k \in 1..(4 * ((n + 2) \div 3)) |->
         LET g == (k - 1) \div 4
             r == (k - 1) % 4
             b1 == at(3 * g + 1)
             b2 == at(3 * g + 2)
             b3 == at(3 * g + 3)
         IN  IF r = 0 THEN b1 \div 4
             ELSE IF r = 1 THEN (b1 % 4) * 16 + b2 \div 16
             ELSE IF r = 2 THEN (IF 3 * g + 2 <= n THEN (b2 % 16) * 4 + b3 \div 64 ELSE PAD)
             ELSE (IF 3 * g + 3 <= n THEN b3 % 64 ELSE PAD)]

RECURSIVE RStripPad(_)
\* str.rstrip("=")
RStripPad(s) ==
  IF s # <<>> /\ s[Len(s)] = PAD THEN RStripPad(SubSeq(s, 1, Len(s) - 1)) ELSE s

RECURSIVE PadRun(_)
PadRun(n) == IF n <= 0 THEN <<>> ELSE <<PAD>> \o PadRun(n - 1)

IsData(c) == c \in B64Alphabet

\* The data characters a2b_base64 reads from s.  Before position i the
\* decoder has read DataBefore(i) data characters and, since the last of
\* them, PadsBefore(i) pads; a pad that completes the quad ends the parse.
\* The result is [ok, data]: ok is FALSE when the last quad is incomplete.
Sextets(s) ==
  LET DataBefore(i) == Cardinality({j \in 1..(i - 1) : IsData(s[j])})
      PadsBefore(i) ==
        Cardinality({j \in 1..(i - 1) :
                       /\ s[j] = PAD
                       /\ \A k \in (j + 1)..(i - 1) : ~IsData(s[k])})
      Ends(i) == /\ s[i] = PAD
                 /\ DataBefore(i) % 4 >= 2
                 /\ (DataBefore(i) % 4) + PadsBefore(i) + 1 >= 4
      stops == {i \in DOMAIN s : Ends(i)}
      stop == IF stops = {} THEN Len(s) + 1
              ELSE CHOOSE i \in stops : \A j \in stops : i <= j
      data == SelectSeq(SubSeq(s, 1, stop - 1), IsData)
  IN  [ok |-> stops # {} \/ Len(data) % 4 = 0, data |-> data]

BytesOf(d) ==
  LET m == Len(d)
      at(i) == IF i <= m THEN d[i] ELSE 0
      tail == IF m % 4 = 2 THEN 1 ELSE IF m % 4 = 3 THEN 2 ELSE 0
  IN  [k \in 1..(3 * (m \div 4) + tail) |->
         LET g == (k - 1) \div 3
             r == (k - 1) % 3
             d1 == at(4 * g + 1)
             d2 == at(4 * g + 2)
             d3 == at(4 * g + 3)
             d4 == at(4 * g + 4)
         IN  IF r = 0 THEN d1 * 4 + d2 \div 16
             ELSE IF r = 1 THEN (d2 % 16) * 16 + d3 \div 4
             ELSE (d3 % 4) * 64 + d4]

\* [ok, bytes]; not ok is binascii.Error (a ValueError).  A str holding a
\* non-ASCII character is refused with ValueError before decoding.
B64Decode(s) ==
  IF \E i \in DOMAIN s : s[i] = NONASCII THEN [ok |-> FALSE, bytes |-> <<>>]
  ELSE LET r == Sextets(s)
       IN  IF r.ok THEN [ok |-> TRUE, bytes |-> BytesOf(r.data)]
           ELSE [ok |-> FALSE, bytes |-> <<>>]

(***************************************************************************)
(* Part 2. The hand-off token codec.                                       *)
(*                                                                         *)
(* hmac.new(key, msg, sha256).digest() is modelled as a keyed hash that is *)
(* free of collisions on the messages the model builds: a weighted sum h   *)
(* of the message with the key, and a digest of DigestLen bytes whose      *)
(* first three bytes are the digits of h.                                  *)
(***************************************************************************)
DigestLen == 32

PORTAL_SIGNING_SECRET == 7

RECURSIVE WeightedSum(_, _, _)
\* The sum of (msg[i] + 1) * (i + 1) over i in lo..hi.
WeightedSum(msg, lo, hi) ==
  IF lo > hi THEN 0
  ELSE IF lo = hi THEN (msg[lo] + 1) * (lo + 1)
  ELSE LET mid == (lo + hi) \div 2
       IN  WeightedSum(msg, lo, mid) + WeightedSum(msg, mid + 1, hi)

Hmac(key, msg) ==
  LET h == (key * 4099 + Len(msg) * 64007 + WeightedSum(msg, 1, Len(msg))) % 1000003
  IN  [j \in 1..DigestLen |->
         IF j = 1 THEN h % 256
         ELSE IF j = 2 THEN (h \div 256) % 256
         ELSE IF j = 3 THEN (h \div 65536) % 256
         ELSE (h + 7 * j) % 256]

\* hmac.compare_digest on two str: TypeError when one holds a non-ASCII
\* character, else equality.
compare_digest(a, b) ==
  IF \E i \in DOMAIN b : b[i] = NONASCII THEN "TypeError"
  ELSE IF a = b THEN "equal" ELSE "differ"

\* The signature segment of header_b64.payload_b64 under the secret.
Signature(header_b64, payload_b64, signing_secret) ==
  RStripPad(B64Encode(Hmac(signing_secret, header_b64 \o <<DOT>> \o payload_b64)))

\* The segment of the payload, given its JSON text.
Segment(json) == RStripPad(B64Encode(json))

create_jwt(payload, signing_secret) ==
  LET header_b64  == Segment(header_json)
      payload_b64 == Segment(JsonDumps(payload, CompactSep))
  IN  header_b64 \o <<DOT>> \o payload_b64 \o <<DOT>>
        \o Signature(header_b64, payload_b64, signing_secret)

RECURSIVE Split(_)
\* str.split(".")
Split(s) ==
  IF \A i \in DOMAIN s : s[i] # DOT THEN <<s>>
  ELSE LET i == CHOOSE j \in DOMAIN s : s[j] = DOT /\ \A k \in 1..(j - 1) : s[k] # DOT
       IN  <<SubSeq(s, 1, i - 1)>> \o Split(SubSeq(s, i + 1, Len(s)))

\* The claims maps json.loads can give back: every map over the keys and
\* values of the model, in either order of insertion.
UserNames == {"UA", "UB"}
DisplayNames == {"", "A", "Al"}
JwtTtl == 600
MaxSkew == 1
MaxTicks == 1
TickStep == JwtTtl + 1
\* The times at which requests are served.
ClockValues == {k * TickStep : k \in 0..MaxTicks}
ExpValues ==
  {9} \cup ((JwtTtl - MaxSkew)..(JwtTtl + MaxSkew)) \cup {c + JwtTtl : c \in ClockValues}

PayloadUniverse ==
  LET U == {<<>>} \cup {<<StrEntry("slack_user_id", u)>> : u \in UserNames}
      D == {<<>>} \cup {<<StrEntry("display_name", d)>> : d \in DisplayNames}
      E == {<<>>} \cup {<<NumEntry("exp", e)>> : e \in ExpValues}
  IN  {u \o d \o e : u \in U, d \in D, e \in E}
        \cup {u \o e \o d : u \in U, d \in D, e \in E}

\* json.loads as the inverse of json.dumps on those maps (either separator
\* style); any other text is a JSONDecodeError.
JsonLoads(bytes) ==
  LET hits == {p \in PayloadUniverse :
                 \/ JsonDumps(p, CompactSep) = bytes
                 \/ JsonDumps(p, DefaultSep) = bytes}
  IN  IF hits = {} THEN [ok |-> FALSE, payload |-> <<>>]
      ELSE [ok |-> TRUE, payload |-> CHOOSE p \in hits : TRUE]

\* Mutant of PadPayload: the padding is left out.
PadPayloadNone(payload_b64) == payload_b64

\* payload_b64 + "=" * (4 - len(payload_b64) % 4)
PadPayload(payload_b64) == payload_b64 \o PadRun(4 - (Len(payload_b64) % 4))

\* Mutant of SignatureCheck: the decoded signatures are compared, not
\* their text.
SignatureCheckDecoded(expected_signature, signature_b64) ==
  compare_digest(B64Decode(expected_signature \o <<PAD, PAD>>).bytes,
                 B64Decode(RStripPad(signature_b64) \o <<PAD, PAD>>).bytes)

\* The comparison of the signature segment with the expected one.
SignatureCheck(expected_signature, signature_b64) ==
  compare_digest(expected_signature, RStripPad(signature_b64))

\* Mutant of Expired: a token is refused from its expiry second on.
ExpiredAtExp(now, exp) == now >= exp

\* time.time() > payload["exp"]
Expired(now, exp) == now > exp

Failure(status, why) == [status |-> status, why |-> why, payload |-> <<>>]

\* validate_jwt: status "ok" with the payload, "ValueError" (raised by the
\* function), or "TypeError" (escapes the function's except clause).
validate_jwt(token, signing_secret, now) ==
  LET parts == Split(token)
  IN  IF Len(parts) # 3 THEN Failure("ValueError", "Invalid JWT format")
      ELSE
        LET header_b64 == parts[1]
            payload_b64 == parts[2]
            signature_b64 == parts[3]
            cmp == SignatureCheck(Signature(header_b64, payload_b64, signing_secret),
                                  signature_b64)
        IN  IF cmp = "TypeError" THEN Failure("TypeError", "compare_digest")
            ELSE IF cmp # "equal" THEN Failure("ValueError", "Invalid JWT signature")
            ELSE
              LET dec == B64Decode(PadPayload(payload_b64))
              IN  IF ~dec.ok THEN Failure("ValueError", "decode")
                  ELSE
                    LET js == JsonLoads(dec.bytes)
                    IN  IF ~js.ok THEN Failure("ValueError", "decode")
                        ELSE IF ~HasKey(js.payload, "exp")
                          THEN Failure("ValueError", "JWT missing expiration")
                        ELSE IF Expired(now, Get(js.payload, "exp").n)
                          THEN Failure("ValueError", "JWT token expired")
                        ELSE [status |-> "ok", why |-> "", payload |-> js.payload]

(***************************************************************************)
(* Part 3. The codec as a state machine: a payload is issued, a character  *)
(* of the token may be replaced, the token is validated at some time.      *)
(***************************************************************************)
VARIABLES jpc, jpayload, jtoken, jtampered, jnow, jres

jvars == <<jpc, jpayload, jtoken, jtampered, jnow, jres>>

\* The payloads handed to create_jwt.
JPayloads ==
  {p \in PayloadUniverse :
     /\ \A i \in DOMAIN p : p[i].k = "slack_user_id" => p[i].s = "UA"
     /\ \A i \in DOMAIN p : p[i].k = "exp" => p[i].n \in {9, JwtTtl}}

\* The times of validation.
JTimes == (JwtTtl - MaxSkew)..(JwtTtl + MaxSkew)

\* The characters that may replace character c of a token.
TamperChars(c) ==
  {PAD, DOT, NONASCII, 0} \cup (IF c \in B64Alphabet
                                 THEN {IF c % 2 = 0 THEN c + 1 ELSE c - 1}
                                 ELSE {})

NoResult == Failure("none", "")

JIssue ==
  /\ jpc = "start"
  /\ jtoken' = create_jwt(jpayload, PORTAL_SIGNING_SECRET)
  /\ jpc' = "issued"
  /\ UNCHANGED <<jpayload, jtampered, jnow, jres>>

JTamper ==
  /\ jpc = "issued"
  /\ ~jtampered
  /\ \E pos \in DOMAIN jtoken :
       /\ jtoken[pos] # DOT
       /\ \E ch \in TamperChars(jtoken[pos]) :
            /\ ch # jtoken[pos]
            /\ jtoken' = [jtoken EXCEPT ![pos] = ch]
  /\ jtampered' = TRUE
  /\ UNCHANGED <<jpc, jpayload, jnow, jres>>

JValidate ==
  /\ jpc = "issued"
  /\ \E now \in JTimes :
       /\ jnow' = now
       /\ jres' = validate_jwt(jtoken, PORTAL_SIGNING_SECRET, now)
  /\ jpc' = "validated"
  /\ UNCHANGED <<jpayload, jtoken, jtampered>>

(***************************************************************************)
(* Part 4. The store, the provider and the requests in flight.             *)
(*                                                                         *)
(* The DynamoDB table holds, per user, the token record (rec), the portal  *)
(* session marker (marker) and, per nonce id, the nonce item (nonces).     *)
(* marker is 0 when there is no item; one marker item is told from another *)
(* (its updated_at) by the number of the refresh token the callback that   *)
(* wrote it had stored.                                                    *)
(* The provider knows which refresh tokens are live.  Every portal request *)
(* and every agent turn runs in its own invocation; each store call and    *)
(* each provider call is one step, and each may fail.                      *)
(***************************************************************************)
VARIABLES clock, rec, nonces, marker, nonceCount, live, issued,
          turn, cb, dash, rv, ops, answers, readings,
          issuedTo, passed, refused, lastWrite, rotated, exchanged, superseded

svars == <<clock, rec, nonces, marker, nonceCount, live, issued>>
pvars == <<turn, cb, dash, rv>>
hvars == <<issuedTo, passed, refused, lastWrite, rotated, exchanged, superseded>>
tvars == <<answers, readings>>
vars == <<jvars, svars, pvars, ops, tvars, hvars>>

Users == UserNames

\* Bounds of the model.
MaxTokens == 3
MaxNonces == 2
MaxOps == 4
NTurns == 2
NCallbacks == 2

Tokens == 1..MaxTokens
NonceIds == 1..MaxNonces
Turns == 1..NTurns
Callbacks == 1..NCallbacks

\* kms encrypt / decrypt: a ciphertext is not a plaintext, and decrypts to
\* the plaintext it was made from.
NoCipher == [ct |-> FALSE, tok |-> 0]
encrypt_value(plaintext) == [ct |-> TRUE, tok |-> plaintext]
decrypt_value(ciphertext) == ciphertext.tok
\* Mutant of encrypt_token: the token is handed on as it is.
encrypt_token_plain(plaintext) == [ct |-> FALSE, tok |-> plaintext]

encrypt_token(plaintext) == [ct |-> TRUE, tok |-> plaintext]
decrypt_token(ciphertext) == ciphertext.tok

\* The item user#<id>#atlassian: absent, or with the attributes written.
\* full: the attributes only the callback's put_item writes are there.
NoRecord == [present |-> FALSE, rt |-> NoCipher, at |-> NoCipher, full |-> FALSE]

\* Mutant of PutRecord: nothing is stored.
PutNothing(encrypted_refresh_token, encrypted_access_token) ==
  [present |-> FALSE, rt |-> NoCipher, at |-> NoCipher, full |-> FALSE]

\* table.put_item(Item={...}) of the callback.
PutRecord(encrypted_refresh_token, encrypted_access_token) ==
  [present |-> TRUE, rt |-> encrypted_refresh_token,
   at |-> encrypted_access_token, full |-> TRUE]

\* Mutant of UpdateItem: the item is left as it was.
UpdateItemDropped(item, encrypted_token) == item

\* table.update_item(Key, "SET encrypted_refresh_token = :t, ..."): DynamoDB
\* creates the item when there is none.
UpdateItem(item, encrypted_token) ==
  [item EXCEPT !.present = TRUE, !.rt = encrypted_token]

\* Mutant of update_user_refresh_token: the SET clause leaves the token out.
update_without_token(item, new_refresh_token) ==
  [item EXCEPT !.present = TRUE]

\* update_user_refresh_token, when encrypt and update_item succeed.
update_user_refresh_token(item, new_refresh_token) ==
  UpdateItem(item, encrypt_token(new_refresh_token))

\* delete_user_token: delete_item of the user's record.
delete_user_token(items, slack_user_id) == [items EXCEPT ![slack_user_id] = NoRecord]

\* Mutant of revoke_delete_item: the record stays.
revoke_keeps_item(items, slack_user_id) == items

\* table.delete_item(Key={"pk": pk}) of the revoke.
revoke_delete_item(items, slack_user_id) == [items EXCEPT ![slack_user_id] = NoRecord]

\* Mutant of lookup_user_token: a failed get_item or decrypt is not caught;
\* what comes back is neither a token nor None.
lookup_raising(item, ok) ==
  IF ~ok THEN -1
  ELSE IF ~item.present THEN 0
  ELSE decrypt_token(item.rt)

\* lookup_user_token: the decrypted refresh token, or 0 (None) when the item
\* or its token is missing or when get_item or decrypt raised (ok = FALSE).
lookup_user_token(item, ok) ==
  IF ~ok THEN 0
  ELSE IF ~item.present THEN 0
  ELSE IF ~item.rt.ct /\ item.rt.tok = 0 THEN 0
  ELSE decrypt_token(item.rt)

\* The last write to a user's record, and the token it wrote.
Write(op, tok) == [op |-> op, tok |-> tok]

(***************************************************************************)
(* The errors an agent turn's tool setup can end with, as the words of     *)
(* str(error).lower().                                                     *)
(***************************************************************************)
ExchangeErrors == {"exchange_403", "exchange_500", "exchange_network"}
DiscoverErrors == {"discover_401", "discover_500", "discover_network",
                   "no_sites", "missing_scopes"}

ErrorWords(err) ==
  CASE err = "exchange_403"     -> {"atlassian", "token", "exchange", "failed", "403"}
    [] err = "exchange_500"     -> {"atlassian", "token", "exchange", "failed", "500"}
    [] err = "exchange_network" -> {"urlopen", "error", "timed", "out"}
    [] err = "discover_401"     -> {"http", "error", "401", "unauthorized"}
    [] err = "discover_500"     -> {"http", "error", "500", "internal", "server"}
    [] err = "discover_network" -> {"urlopen", "error", "timed", "out"}
    [] err = "no_sites"         -> {"no", "accessible", "atlassian", "cloud", "sites", "found"}
    [] err = "missing_scopes"   -> {"token", "is", "missing", "required", "scopes"}
    [] OTHER                    -> {}

\* Mutant of IsTokenFailure: no error counts as a token failure.
NoTokenFailure(err) == FALSE

\* "token" in error_msg or "401" in error_msg or "403" in error_msg
IsTokenFailure(err) ==
  \/ "token" \in ErrorWords(err)
  \/ "401" \in ErrorWords(err)
  \/ "403" \in ErrorWords(err)

\* Mutant of NeedsAuthTool: the auth tool is registered in every turn.
AuthToolAlways(has_atlassian_write_tools) == TRUE

\* if not has_atlassian_write_tools: register the auth tool
NeedsAuthTool(has_atlassian_write_tools) == ~has_atlassian_write_tools

(***************************************************************************)
(* Part 5. What the requests carry.                                        *)
(***************************************************************************)
\* json.dumps({"alg": "HS256", "typ": "JWT"}) with the default separators.
worker_header_json ==
  <<123, 34, 97, 108, 103, 34, 58, 32, 34, 72, 83, 50, 53, 54, 34, 44, 32, 34,
    116, 121, 112, 34, 58, 32, 34, 74, 87, 84, 34, 125>>

\* The display name Slack knows for a user (UB has none).
DisplayNameOf(u) == IF u = "UA" THEN "Al" ELSE ""

\* Mutant of generate_portal_url: the agent signs with another secret.
generate_with_other_secret(slack_user_id, signing_secret, user_display_name, now) ==
  LET payload == <<StrEntry("slack_user_id", slack_user_id), NumEntry("exp", now + JwtTtl)>>
                   \o (IF user_display_name # ""
                       THEN <<StrEntry("display_name", user_display_name)>> ELSE <<>>)
      header == Segment(worker_header_json)
      payload_b64 == Segment(JsonDumps(payload, DefaultSep))
  IN  header \o <<DOT>> \o payload_b64 \o <<DOT>>
        \o Signature(header, payload_b64, signing_secret + 1)

\* generate_portal_url: the token of the link the agent hands out.
generate_portal_url(slack_user_id, signing_secret, user_display_name, now) ==
  LET payload == <<StrEntry("slack_user_id", slack_user_id), NumEntry("exp", now + JwtTtl)>>
                   \o (IF user_display_name # ""
                       THEN <<StrEntry("display_name", user_display_name)>> ELSE <<>>)
      header == Segment(worker_header_json)
      payload_b64 == Segment(JsonDumps(payload, DefaultSep))
  IN  header \o <<DOT>> \o payload_b64 \o <<DOT>>
        \o Signature(header, payload_b64, signing_secret)

\* The token in the Location of the callback's redirect.
CallbackJwt(slack_user_id, display_name, now) ==
  create_jwt(<<StrEntry("slack_user_id", slack_user_id),
               StrEntry("display_name", display_name),
               NumEntry("exp", now + JwtTtl)>>, PORTAL_SIGNING_SECRET)

\* The token in the Location of the revoke's redirect.
RevokeJwt(slack_user_id, display_name, now) ==
  create_jwt(<<StrEntry("slack_user_id", slack_user_id), NumEntry("exp", now + JwtTtl)>>
               \o (IF display_name # "" THEN <<StrEntry("display_name", display_name)>>
                   ELSE <<>>), PORTAL_SIGNING_SECRET)

\* The token parameters a dashboard or revoke request can carry: none; a
\* token minted at time `at` by the agent, the callback or the revoke; an
\* agent token with its last character changed or made non-ASCII; a signed
\* token without exp; a signed token without user id.
Handoff(kind, user, at) == [kind |-> kind, user |-> user, at |-> at]
Handoffs ==
  {Handoff("none", "UA", 0), Handoff("forged", "UA", 0), Handoff("nonascii", "UA", 0),
   Handoff("noexp", "UA", 0), Handoff("nouser", "UA", 0)}
    \cup {Handoff("agent", u, c) : u \in Users, c \in ClockValues}
    \cup {Handoff(k, "UA", c) : k \in {"callback", "revoke"}, c \in ClockValues}

\* The last character of a token, replaced.
WithLast(token, ch) == [token EXCEPT ![Len(token)] = ch]

TokenOf(h) ==
  LET agent == generate_portal_url(h.user, PORTAL_SIGNING_SECRET, DisplayNameOf(h.user), h.at)
  IN  CASE h.kind = "none"     -> <<>>
        [] h.kind = "agent"    -> agent
        [] h.kind = "callback" -> CallbackJwt(h.user, DisplayNameOf(h.user), h.at)
        [] h.kind = "revoke"   -> RevokeJwt(h.user, DisplayNameOf(h.user), h.at)
        [] h.kind = "forged"   -> WithLast(agent, IF agent[Len(agent)] = 0 THEN 1 ELSE 0)
        [] h.kind = "nonascii" -> WithLast(agent, NONASCII)
        [] h.kind = "noexp"    ->
             create_jwt(<<StrEntry("slack_user_id", h.user)>>, PORTAL_SIGNING_SECRET)
        [] h.kind = "nouser"   ->
             create_jwt(<<NumEntry("exp", h.at + JwtTtl)>>, PORTAL_SIGNING_SECRET)

\* How the portal answers the token of a request: 400 without token, 401
\* when validate_jwt raises ValueError or the claims have no user id, 500
\* when another exception reaches lambda_handler, else 0 with the claims.
\* detail is the exception text in the body of lambda_handler's answer.
Denied(status) ==
  [status |-> status, user |-> None, display_name |-> "", detail |-> ""]

\* lambda_handler's except Exception as e: 500 with
\* render_error(f"Internal server error: {e}"); detail is what the body
\* holds of the exception.
InternalServerError(e) ==
  [status |-> 500, why |-> "Internal server error", detail |-> e]

AuthenticateToken(token, now) ==
  IF token = <<>> THEN Denied(400)
  ELSE LET r == validate_jwt(token, PORTAL_SIGNING_SECRET, now)
       IN  IF r.status = "TypeError"
             THEN [Denied(InternalServerError("TypeError").status)
                     EXCEPT !.detail = InternalServerError("TypeError").detail]
           ELSE IF r.status # "ok" THEN Denied(401)
           ELSE IF ~HasKey(r.payload, "slack_user_id") THEN Denied(401)
           ELSE [status |-> 0, detail |-> "",
                 user |-> Get(r.payload, "slack_user_id").s,
                 display_name |-> IF HasKey(r.payload, "display_name")
                                  THEN Get(r.payload, "display_name").s ELSE ""]

\* The answers to each of those tokens at each time.
HandoffCheck ==
  [h \in Handoffs, c \in ClockValues |-> AuthenticateToken(TokenOf(h), c)]

\* The answer to the token of a request; answers is HandoffCheck, worked
\* out once.
Authenticate(h, now) == answers[h, now]

\* str(uuid.uuid4()) of the n-th nonce.
NonceName(n) == <<"n1", "n2", "n3">>[n]
NonceOf(name) == CHOOSE n \in 1..3 : NonceName(n) = name

\* state_data of the dashboard.
StateData(slack_user_id, nonce, display_name) ==
  <<StrEntry("slack_user_id", slack_user_id), StrEntry("nonce", nonce),
    StrEntry("display_name", display_name)>>

\* base64.urlsafe_b64encode(json.dumps(state_data).encode()).decode()
EncodeState(state_data) == B64Encode(JsonDumps(state_data, DefaultSep))

\* The maps json.loads can give back for a state parameter.
StateUniverse ==
  LET U == {<<>>} \cup {<<StrEntry("slack_user_id", u)>> : u \in Users}
      N == {<<>>} \cup {<<StrEntry("nonce", NonceName(n))>> : n \in NonceIds}
      D == {<<StrEntry("display_name", d)>> : d \in DisplayNames}
  IN  {u \o n \o d : u \in U, n \in N, d \in D}

\* json.loads of the state: a map, or an int (isdict = FALSE) for a text
\* of one digit.
StateLoads(bytes) ==
  LET hits == {p \in StateUniverse : JsonDumps(p, DefaultSep) = bytes}
  IN  IF \E n \in 0..9 : bytes = Digits(n)
        THEN [ok |-> TRUE, isdict |-> FALSE, payload |-> <<>>]
      ELSE IF hits = {} THEN [ok |-> FALSE, isdict |-> FALSE, payload |-> <<>>]
      ELSE [ok |-> TRUE, isdict |-> TRUE, payload |-> CHOOSE p \in hits : TRUE]

BadState ==
  [ok |-> FALSE, raised |-> "ValueError", user |-> None, nonce |-> 0,
   display_name |-> ""]

\* The callback's decoding of its state parameter; ok = FALSE when
\* something is raised: one of ValueError, KeyError, JSONDecodeError,
\* binascii.Error, which the callback catches, or the TypeError of
\* state["slack_user_id"] on a value that is not a dict, which it does not.
DecodeState(state_b64) ==
  LET dec == B64Decode(state_b64 \o <<PAD, PAD>>)
  IN  IF ~dec.ok THEN BadState
      ELSE LET js == StateLoads(dec.bytes)
           IN  IF ~js.ok THEN BadState
               ELSE IF ~js.isdict THEN [BadState EXCEPT !.raised = "TypeError"]
               ELSE IF ~HasKey(js.payload, "slack_user_id") \/ ~HasKey(js.payload, "nonce")
                 THEN [BadState EXCEPT !.raised = "KeyError"]
               ELSE [ok |-> TRUE, raised |-> "",
                     user |-> Get(js.payload, "slack_user_id").s,
                     nonce |-> NonceOf(Get(js.payload, "nonce").s),
                     display_name |-> IF HasKey(js.payload, "display_name")
                                      THEN Get(js.payload, "display_name").s ELSE ""]

\* The state parameters a callback request can carry: none; text that is
\* not base64 of JSON; a state without nonce; base64 of the JSON number 5;
\* a state as a dashboard made it, for any user and any nonce id.
StateParam(kind, user, nonce) == [kind |-> kind, user |-> user, nonce |-> nonce]
StateParams ==
  {StateParam("none", "UA", 1), StateParam("garbage", "UA", 1),
   StateParam("nononce", "UA", 1), StateParam("number", "UA", 1)}
    \cup {StateParam("dashboard", u, n) : u \in Users, n \in NonceIds}

StateOf(sp) ==
  CASE sp.kind = "none"      -> <<>>
    [] sp.kind = "garbage"   -> <<0, NONASCII, 1, 2>>
    [] sp.kind = "nononce"   ->
         EncodeState(<<StrEntry("slack_user_id", sp.user),
                       StrEntry("display_name", DisplayNameOf(sp.user))>>)
    [] sp.kind = "number"    -> B64Encode(Digits(5))
    [] sp.kind = "dashboard" ->
         EncodeState(StateData(sp.user, NonceName(sp.nonce), DisplayNameOf(sp.user)))

\* The callback's reading of each of those parameters.
StateCheck == [sp \in StateParams |-> DecodeState(StateOf(sp))]

\* The callback's reading of the state of a request; readings is
\* StateCheck, worked out once.
ReadState(sp) == readings[sp]

\* Mutant of NonceMatches: the owner of the nonce is not compared.
NonceOwnerAny(nonce_item, slack_user_id) == nonce_item # None

\* "Item" in response and nonce_item.get("slack_user_id") == slack_user_id
NonceMatches(nonce_item, slack_user_id) ==
  nonce_item # None /\ nonce_item = slack_user_id

(***************************************************************************)
(* Part 6. The agent turn (execute_agent): marker check, lookup, refresh   *)
(* exchange, persist, accessible-resources discovery, stale-token delete,  *)
(* tool registration, tool calls.                                          *)
(*                                                                         *)
(* Fields of a turn besides its locals: after is the kind of the last      *)
(* write to the record when the turn looked it up, fresh tells that the    *)
(* token it read had not been replaced in the store, resent that the token *)
(* it sent had already been exchanged, saw the marker item it read (0:     *)
(* none), completed the answer of check_and_cleanup_auth_prompt, cleanup   *)
(* what became of the call of delete_user_token ("none": not called),      *)
(* link where the portal URL of                                            *)
(* request_atlassian_authorization went, attempts the number of calls of   *)
(* _exchange_refresh_token.                                                *)
(***************************************************************************)
IdleTurn ==
  [pc |-> "idle", user |-> None, rt |-> 0, newrt |-> 0, acc |-> 0,
   persisted |-> FALSE, err |-> "", write |-> FALSE, auth |-> FALSE,
   called |-> FALSE, wrote |-> FALSE, completed |-> FALSE,
   saw |-> 0, cleanup |-> "none", link |-> "none", attempts |-> 0,
   after |-> "", fresh |-> TRUE, resent |-> FALSE]

\* A turn begins in an invocation that is free; the second invocation is
\* taken when the first is busy.
Free(slots, i) ==
  /\ slots[i].pc \in {"idle", "ready", "done"}
  /\ \A j \in 1..(i - 1) : slots[j].pc \notin {"idle", "ready", "done"}

TurnStart(t, u) ==
  /\ Free(turn, t)
  /\ ops < MaxOps
  /\ turn' = [turn EXCEPT ![t] = [IdleTurn EXCEPT !.pc = "marker", !.user = u]]
  /\ ops' = ops + 1
  /\ UNCHANGED <<jvars, tvars, svars, cb, dash, rv, hvars>>

\* check_and_cleanup_auth_prompt: get_item of the marker.
CheckMarkerGet(t) ==
  /\ turn[t].pc = "marker"
  /\ \E ok \in BOOLEAN :
       LET item == IF ok THEN marker[turn[t].user] ELSE 0
       IN  turn' = [turn EXCEPT ![t].saw = item,
                                ![t].pc = IF item # 0 THEN "marker_delete" ELSE "lookup"]
  /\ UNCHANGED <<jvars, tvars, ops, svars, cb, dash, rv, hvars>>

\* check_and_cleanup_auth_prompt: delete_item of the marker, return True.
CheckMarkerDelete(t) ==
  /\ turn[t].pc = "marker_delete"
  /\ \E ok \in BOOLEAN :
       /\ marker' = IF ok THEN [marker EXCEPT ![turn[t].user] = 0] ELSE marker
       /\ turn' = [turn EXCEPT ![t].completed = ok, ![t].pc = "lookup"]
  /\ UNCHANGED <<jvars, tvars, ops, clock, rec, nonces, nonceCount, live, issued, cb, dash, rv, hvars>>

\* lookup_user_token; without a token the auth tool is registered.
TurnLookup(t) ==
  /\ turn[t].pc = "lookup"
  /\ \E ok \in BOOLEAN :
       LET u == turn[t].user
           user_refresh_token == lookup_user_token(rec[u], ok)
       IN  turn' = [turn EXCEPT
                      ![t].rt = user_refresh_token,
                      ![t].after = lastWrite[u].op,
                      ![t].fresh = user_refresh_token \notin superseded,
                      ![t].auth = IF user_refresh_token = 0
                                  THEN NeedsAuthTool(FALSE) ELSE FALSE,
                      ![t].pc = IF user_refresh_token = 0 THEN "ready" ELSE "exchange"]
  /\ UNCHANGED <<jvars, tvars, ops, svars, cb, dash, rv, hvars>>

\* _exchange_refresh_token: the provider rotates the token, answers without
\* a new refresh token, rejects a token that is not live, or the call fails
\* (5xx answer, network error).
TurnExchange(t) ==
  /\ turn[t].pc = "exchange"
  /\ LET tk == turn[t].rt IN
       \/ /\ tk \in live /\ issued < MaxTokens
          /\ issued' = issued + 1
          /\ live' = (live \ {tk}) \cup {issued + 1}
          /\ turn' = [turn EXCEPT ![t].newrt = issued + 1, ![t].acc = issued + 1,
                                  ![t].resent = tk \in exchanged, ![t].pc = "persist",
                                  ![t].attempts = turn[t].attempts + 1]
          /\ exchanged' = exchanged \cup {tk}
       \/ /\ tk \in live
          /\ turn' = [turn EXCEPT ![t].acc = tk, ![t].resent = tk \in exchanged,
                                  ![t].pc = "discover",
                                  ![t].attempts = turn[t].attempts + 1]
          /\ exchanged' = exchanged \cup {tk}
          /\ UNCHANGED <<live, issued>>
       \/ /\ tk \notin live
          /\ turn' = [turn EXCEPT ![t].err = "exchange_403", ![t].resent = tk \in exchanged,
                                  ![t].pc = "fail",
                                  ![t].attempts = turn[t].attempts + 1]
          /\ UNCHANGED <<live, issued, exchanged>>
       \/ /\ \E e \in {"exchange_500", "exchange_network"} :
               turn' = [turn EXCEPT ![t].err = e, ![t].pc = "fail",
                                  ![t].attempts = turn[t].attempts + 1]
          /\ UNCHANGED <<live, issued, exchanged>>
  /\ UNCHANGED <<jvars, tvars, ops, clock, rec, nonces, marker, nonceCount, cb, dash, rv,
                 issuedTo, passed, refused, lastWrite, rotated, superseded>>

\* if new_refresh_token and slack_user_id: update_user_refresh_token(...),
\* whose failure is printed and whose result is not looked at.
TurnPersist(t) ==
  /\ turn[t].pc = "persist"
  /\ LET u == turn[t].user IN
     \E ok \in BOOLEAN :
       /\ rec' = IF ok
                 THEN [rec EXCEPT ![u] = update_user_refresh_token(rec[u], turn[t].newrt)]
                 ELSE rec
       /\ lastWrite' = IF ok THEN [lastWrite EXCEPT ![u] = Write("agent_rotate", turn[t].newrt)]
                       ELSE lastWrite
       /\ superseded' = IF ok THEN superseded \cup {turn[t].rt} ELSE superseded
       /\ rotated' = [rotated EXCEPT ![u] = turn[t].newrt]
       /\ turn' = [turn EXCEPT ![t].persisted = ok, ![t].pc = "discover"]
  /\ UNCHANGED <<jvars, tvars, ops, clock, nonces, marker, nonceCount, live, issued, cb, dash, rv,
                 issuedTo, passed, refused, exchanged>>

\* _get_accessible_resources and the scope check; on success the write
\* tools are registered and the auth tool is not.
TurnDiscover(t) ==
  /\ turn[t].pc = "discover"
  /\ \/ turn' = [turn EXCEPT ![t].called = TRUE, ![t].write = TRUE,
                             ![t].auth = NeedsAuthTool(TRUE), ![t].pc = "ready"]
     \/ \E e \in DiscoverErrors :
          turn' = [turn EXCEPT ![t].called = TRUE, ![t].err = e, ![t].pc = "fail"]
  /\ UNCHANGED <<jvars, tvars, ops, svars, cb, dash, rv, hvars>>

\* except Exception as error: delete_user_token when the message names a
\* token failure; then the auth tool is registered.
TurnFail(t) ==
  /\ turn[t].pc = "fail"
  /\ LET u == turn[t].user IN
     \E ok \in BOOLEAN :
       LET del == ok /\ IsTokenFailure(turn[t].err) IN
       /\ IsTokenFailure(turn[t].err) \/ ok
       /\ rec' = IF del THEN delete_user_token(rec, u) ELSE rec
       /\ lastWrite' = IF del THEN [lastWrite EXCEPT ![u] = Write("stale_delete", 0)]
                       ELSE lastWrite
       /\ rotated' = IF del THEN [rotated EXCEPT ![u] = 0] ELSE rotated
       /\ turn' = [turn EXCEPT ![t].auth = NeedsAuthTool(FALSE),
                                ![t].cleanup = IF del THEN "deleted"
                                               ELSE IF IsTokenFailure(turn[t].err)
                                                 THEN "failed" ELSE "none",
                                ![t].pc = "ready"]
  /\ UNCHANGED <<jvars, tvars, ops, clock, nonces, marker, nonceCount, live, issued, cb, dash, rv,
                 issuedTo, passed, refused, exchanged, superseded>>

\* request_atlassian_authorization, given whether the turn has a Slack
\* token and channel and how chat.postEphemeral ended ("ok", "not_ok",
\* "raised"): where the portal URL is, "ephemeral" for the user-only
\* message, "result" for the tool result handed to the agent (link_fallback),
\* "error" when no URL was made.
request_atlassian_authorization(configured, slack_context, ephemeral) ==
  IF ~configured THEN "error"
  ELSE IF slack_context
    THEN IF ephemeral = "ok" THEN "ephemeral" ELSE "result"
  ELSE "result"

\* The agent calls the auth tool.
TurnAuthCall(t) ==
  /\ turn[t].pc = "ready"
  /\ turn[t].auth
  /\ turn[t].link = "none"
  /\ ops < MaxOps
  /\ ops' = ops + 1
  /\ \E configured \in BOOLEAN, slack_context \in BOOLEAN,
        ephemeral \in {"ok", "not_ok", "raised"} :
       turn' = [turn EXCEPT ![t].link =
                  request_atlassian_authorization(configured, slack_context, ephemeral)]
  /\ UNCHANGED <<jvars, tvars, svars, cb, dash, rv, hvars>>

\* A write tool is called: a REST call with the turn's access token.
TurnWriteCall(t) ==
  /\ turn[t].pc = "ready"
  /\ turn[t].write
  /\ ~turn[t].wrote
  /\ turn' = [turn EXCEPT ![t].wrote = TRUE, ![t].called = TRUE]
  /\ UNCHANGED <<jvars, tvars, ops, svars, cb, dash, rv, hvars>>

(***************************************************************************)
(* Part 7. The callback (handle_atlassian_callback).  replay tells that    *)
(* the nonce presented had already passed a callback's CSRF check when     *)
(* the request came in, input what the request carried ("missing": no code *)
(* or no state, "bad_state": a state that does not decode to the state     *)
(* map, "ok"), stored that the put_item of the record was done, marked     *)
(* that the put_item of the marker was.                                    *)
(***************************************************************************)
IdleCb ==
  [pc |-> "idle", user |-> None, nonce |-> 0, display_name |-> "", rt |-> 0,
   acc |-> 0, status |-> 0, why |-> "", replay |-> FALSE, retry |-> FALSE, input |-> "",
   stored |-> FALSE, marked |-> FALSE, detail |-> ""]

Answer(r, status, why) == [r EXCEPT !.pc = "done", !.status = status, !.why = why]

\* Mutant of delete_nonce: the nonce item stays.
keep_nonce(items, nonce) == items

\* table.delete_item(Key={"pk": nonce_pk})
delete_nonce(items, nonce) == [items EXCEPT ![nonce] = None]

csrf_failed_burns(items, nonce) == delete_nonce(items, nonce)

\* except Exception of the CSRF block: the error is logged and 400 is
\* returned; the delete_item of the nonce, the last statement of the try
\* block, has not run.
csrf_failed(items, nonce) == items

\* Parameters, state decoding, get_item of the nonce and its owner check.
\* refused collects the nonces a callback was rejected for because the
\* stored owner differs from the state's user; retry tells that the nonce
\* presented had been refused so before this request started.
\* An exception the callback does not catch is answered by lambda_handler
\* with 500.
CbStart(c) ==
  /\ Free(cb, c)
  /\ ops < MaxOps
  /\ \E code \in BOOLEAN, sp \in StateParams :
       LET st == ReadState(sp)
           r == [IdleCb EXCEPT !.user = st.user, !.nonce = st.nonce,
                               !.display_name = st.display_name,
                               !.replay = st.ok /\ st.nonce \in passed,
                               !.retry = st.ok /\ st.nonce \in refused,
                               !.input = "ok"]
           missing == [IdleCb EXCEPT !.input = "missing"]
           bad == [IdleCb EXCEPT !.input = "bad_state"]
       IN  IF ~code \/ sp.kind = "none"
             THEN /\ cb' = [cb EXCEPT ![c] = Answer(missing, 400, "Missing OAuth parameters")]
                  /\ UNCHANGED <<nonces, refused>>
           ELSE IF ~st.ok /\ st.raised = "TypeError"
             THEN /\ cb' = [cb EXCEPT ![c] =
                            LET e == InternalServerError(st.raised)
                            IN  [Answer(bad, e.status, e.why) EXCEPT !.detail = e.detail]]
                  /\ UNCHANGED <<nonces, refused>>
           ELSE IF ~st.ok
             THEN /\ cb' = [cb EXCEPT ![c] = Answer(bad, 400, "Invalid state parameter")]
                  /\ UNCHANGED <<nonces, refused>>
           ELSE \E ok \in BOOLEAN :
                  IF ok /\ NonceMatches(nonces[st.nonce], st.user)
                    THEN /\ cb' = [cb EXCEPT ![c] = [r EXCEPT !.pc = "nonce_delete"]]
                         /\ UNCHANGED <<nonces, refused>>
                    ELSE /\ cb' = [cb EXCEPT ![c] = Answer(r, 400, "CSRF validation failed")]
                         /\ nonces' = csrf_failed(nonces, st.nonce)
                         /\ refused' = IF ok /\ nonces[st.nonce] # None
                                          THEN refused \cup {st.nonce} ELSE refused
  /\ ops' = ops + 1
  /\ UNCHANGED <<jvars, tvars, clock, rec, marker, nonceCount, live, issued, turn, dash, rv,
                 issuedTo, passed, lastWrite, rotated, exchanged, superseded>>

\* delete_item of the nonce: the CSRF check is passed when it succeeds.
CbDeleteNonce(c) ==
  /\ cb[c].pc = "nonce_delete"
  /\ \E ok \in BOOLEAN :
       IF ok
         THEN /\ nonces' = delete_nonce(nonces, cb[c].nonce)
              /\ passed' = passed \cup {cb[c].nonce}
              /\ cb' = [cb EXCEPT ![c].pc = "exchange"]
         ELSE /\ cb' = [cb EXCEPT ![c] = Answer(cb[c], 400, "CSRF validation failed")]
              /\ UNCHANGED <<nonces, passed>>
  /\ UNCHANGED <<jvars, tvars, ops, clock, rec, marker, nonceCount, live, issued, turn, dash, rv,
                 issuedTo, refused, lastWrite, rotated, exchanged, superseded>>

\* The code exchange and the accessible-resources call.
CbExchange(c) ==
  /\ cb[c].pc = "exchange"
  /\ \/ /\ cb' = [cb EXCEPT ![c] = Answer(cb[c], 500, "Failed to exchange OAuth code")]
        /\ UNCHANGED <<live, issued>>
     \/ /\ issued < MaxTokens
        /\ issued' = issued + 1
        /\ live' = live \cup {issued + 1}
        /\ \/ cb' = [cb EXCEPT ![c].rt = issued + 1, ![c].acc = issued + 1, ![c].pc = "store"]
           \/ cb' = [cb EXCEPT ![c] = Answer(cb[c], 500, "Failed to fetch Atlassian resources")]
  /\ UNCHANGED <<jvars, tvars, ops, clock, rec, nonces, marker, nonceCount, turn, dash, rv, hvars>>

\* encrypt_value of both tokens and put_item of the record.
CbStore(c) ==
  /\ cb[c].pc = "store"
  /\ LET u == cb[c].user IN
     \/ /\ cb' = [cb EXCEPT ![c] = Answer(cb[c], 500, "Encryption failed")]
        /\ UNCHANGED <<rec, lastWrite, rotated>>
     \/ /\ cb' = [cb EXCEPT ![c] = Answer(cb[c], 500, "Failed to store tokens")]
        /\ UNCHANGED <<rec, lastWrite, rotated>>
     \/ /\ rec' = [rec EXCEPT ![u] = PutRecord(encrypt_value(cb[c].rt),
                                               encrypt_value(cb[c].acc))]
        /\ lastWrite' = [lastWrite EXCEPT ![u] = Write("callback", cb[c].rt)]
        /\ rotated' = [rotated EXCEPT ![u] = 0]
        /\ cb' = [cb EXCEPT ![c].pc = "marker", ![c].stored = TRUE]
  /\ UNCHANGED <<jvars, tvars, ops, clock, nonces, marker, nonceCount, live, issued, turn, dash, rv,
                 issuedTo, passed, refused, exchanged, superseded>>

\* Mutant of AfterMarker: a failed marker write fails the request.
AfterMarkerStrict(r, ok) ==
  IF ok THEN Answer([r EXCEPT !.marked = TRUE], 302, "")
  ELSE Answer(r, 500, "Failed to store tokens")

\* What follows the put_item of the marker: its ClientError is printed, and
\* the answer is the 302 redirect to the dashboard.
AfterMarker(r, ok) == Answer([r EXCEPT !.marked = ok], 302, "")

\* put_item of the marker, then the answer.
CbMarker(c) ==
  /\ cb[c].pc = "marker"
  /\ \E ok \in BOOLEAN :
       /\ marker' = IF ok THEN [marker EXCEPT ![cb[c].user] = cb[c].rt] ELSE marker
       /\ cb' = [cb EXCEPT ![c] = AfterMarker(cb[c], ok)]
  /\ UNCHANGED <<jvars, tvars, ops, clock, rec, nonces, nonceCount, live, issued, turn, dash, rv, hvars>>

(***************************************************************************)
(* Part 8. The dashboard (handle_dashboard with _verify_atlassian_token)   *)
(* and the revoke (handle_atlassian_revoke).                               *)
(***************************************************************************)
IdleDash ==
  [pc |-> "idle", user |-> None, display_name |-> "", jc |-> FALSE, rt |-> 0,
   newrt |-> 0, connected |-> FALSE, status |-> 0, nonce |-> 0,
   after |-> "", fresh |-> TRUE, resent |-> FALSE, exch |-> FALSE, detail |-> ""]

\* A token minted at some time is presented at that time or later.
Presentable(h) == h.at <= clock

\* Token check, then the connection status: trusted with the flag
\* just_connected=atlassian, else get_item and, with a record that has a
\* refresh token that decrypts, the live verification.
DashStart ==
  /\ dash.pc \in {"idle", "done"}
  /\ ops < MaxOps
  /\ \E h \in Handoffs, jc \in BOOLEAN :
       /\ Presentable(h)
       /\ LET a == Authenticate(h, clock)
              r == [IdleDash EXCEPT !.user = a.user, !.display_name = a.display_name,
                                    !.jc = jc,
                                    !.after = IF a.status = 0 THEN lastWrite[a.user].op
                                              ELSE ""]
          IN  IF a.status # 0
                THEN dash' = [IdleDash EXCEPT !.pc = "done", !.status = a.status,
                                              !.detail = a.detail]
              ELSE /\ nonceCount < MaxNonces
                   /\ IF jc
                        THEN dash' = [r EXCEPT !.connected = TRUE, !.pc = "nonce"]
                        ELSE \E ok \in BOOLEAN :
                               LET tk == lookup_user_token(rec[a.user], ok) IN
                               dash' = [r EXCEPT !.rt = tk,
                                                 !.fresh = tk \notin superseded,
                                                 !.pc = IF tk = 0 THEN "nonce" ELSE "verify"]
  /\ ops' = ops + 1
  /\ UNCHANGED <<jvars, tvars, svars, turn, cb, rv, hvars>>

\* The refresh exchange of _verify_atlassian_token.
DashExchange ==
  /\ dash.pc = "verify"
  /\ LET tk == dash.rt IN
       \/ /\ tk \in live /\ issued < MaxTokens
          /\ issued' = issued + 1
          /\ live' = (live \ {tk}) \cup {issued + 1}
          /\ dash' = [dash EXCEPT !.newrt = issued + 1, !.resent = tk \in exchanged,
                                  !.exch = TRUE, !.pc = "verify_store"]
          /\ exchanged' = exchanged \cup {tk}
       \/ /\ tk \in live
          /\ dash' = [dash EXCEPT !.connected = TRUE, !.resent = tk \in exchanged,
                                  !.exch = TRUE, !.pc = "nonce"]
          /\ exchanged' = exchanged \cup {tk}
          /\ UNCHANGED <<live, issued>>
       \/ /\ tk \notin live
          /\ dash' = [dash EXCEPT !.resent = tk \in exchanged, !.pc = "nonce"]
          /\ UNCHANGED <<live, issued, exchanged>>
       \/ /\ dash' = [dash EXCEPT !.pc = "nonce"]
          /\ UNCHANGED <<live, issued, exchanged>>
  /\ UNCHANGED <<jvars, tvars, ops, clock, rec, nonces, marker, nonceCount, turn, cb, rv,
                 issuedTo, passed, refused, lastWrite, rotated, superseded>>

\* if new_refresh: encrypt_value and update_item; an exception gives
\* (False, None).
DashStore ==
  /\ dash.pc = "verify_store"
  /\ LET u == dash.user IN
     \E ok \in BOOLEAN :
       /\ rec' = IF ok THEN [rec EXCEPT ![u] = UpdateItem(rec[u], encrypt_value(dash.newrt))]
                 ELSE rec
       /\ lastWrite' = IF ok
                       THEN [lastWrite EXCEPT ![u] = Write("dashboard_rotate", dash.newrt)]
                       ELSE lastWrite
       /\ superseded' = IF ok THEN superseded \cup {dash.rt} ELSE superseded
       /\ rotated' = IF ok THEN [rotated EXCEPT ![u] = 0] ELSE rotated
       /\ dash' = [dash EXCEPT !.connected = ok, !.pc = "nonce"]
  /\ UNCHANGED <<jvars, tvars, ops, clock, nonces, marker, nonceCount, live, issued, turn, cb, rv,
                 issuedTo, passed, refused, exchanged>>

\* uuid4 nonce, put_item of the nonce, the page (200) or 500.
DashNonce ==
  /\ dash.pc = "nonce"
  /\ \E ok \in BOOLEAN :
       LET nonce == nonceCount + 1 IN
       IF ok
         THEN /\ nonceCount' = nonce
              /\ nonces' = [nonces EXCEPT ![nonce] = dash.user]
              /\ issuedTo' = [issuedTo EXCEPT ![nonce] = dash.user]
              /\ dash' = [dash EXCEPT !.nonce = nonce, !.status = 200, !.pc = "done"]
         ELSE /\ dash' = [dash EXCEPT !.status = 500, !.pc = "done"]
              /\ UNCHANGED <<nonceCount, nonces, issuedTo>>
  /\ UNCHANGED <<jvars, tvars, ops, clock, rec, marker, live, issued, turn, cb, rv,
                 passed, refused, lastWrite, rotated, exchanged, superseded>>

\* handle_atlassian_revoke: token check, delete_item, redirect.
NoRevoke == [status |-> 0, user |-> None, detail |-> ""]

Revoke ==
  /\ ops < MaxOps
  /\ \E h \in Handoffs :
       /\ Presentable(h)
       /\ LET a == Authenticate(h, clock) IN
          IF a.status # 0
            THEN /\ rv' = [status |-> a.status, user |-> None, detail |-> a.detail]
                 /\ UNCHANGED <<rec, lastWrite, rotated>>
          ELSE \E ok \in BOOLEAN :
                 IF ok
                   THEN /\ rec' = revoke_delete_item(rec, a.user)
                        /\ lastWrite' = [lastWrite EXCEPT ![a.user] = Write("revoke", 0)]
                        /\ rotated' = [rotated EXCEPT ![a.user] = 0]
                        /\ rv' = [status |-> 302, user |-> a.user, detail |-> ""]
                   ELSE /\ rv' = [status |-> 500, user |-> a.user, detail |-> ""]
                        /\ UNCHANGED <<rec, lastWrite, rotated>>
  /\ ops' = ops + 1
  /\ UNCHANGED <<jvars, tvars, clock, nonces, marker, nonceCount, live, issued, turn, cb, dash,
                 issuedTo, passed, refused, exchanged, superseded>>

\* Time passes.
Tick ==
  /\ clock + TickStep \in ClockValues
  /\ clock' = clock + TickStep
  /\ UNCHANGED <<jvars, tvars, ops, rec, nonces, marker, nonceCount, live, issued, pvars, hvars>>

(***************************************************************************)
(* Part 9. The specifications.                                             *)
(***************************************************************************)
Init ==
  /\ jpc = "off" /\ jpayload = <<>> /\ jtoken = <<>> /\ jtampered = FALSE
  /\ jnow = 0 /\ jres = NoResult
  /\ clock = 0
  /\ rec = [u \in Users |-> NoRecord]
  /\ nonces = [n \in NonceIds |-> None]
  /\ marker = [u \in Users |-> 0]
  /\ nonceCount = 0
  /\ live = {}
  /\ issued = 0
  /\ turn = [t \in Turns |-> IdleTurn]
  /\ cb = [c \in Callbacks |-> IdleCb]
  /\ dash = IdleDash
  /\ rv = NoRevoke
  /\ ops = 0
  /\ answers = HandoffCheck
  /\ readings = StateCheck
  /\ issuedTo = [n \in NonceIds |-> None]
  /\ passed = {}
  /\ refused = {}
  /\ lastWrite = [u \in Users |-> Write("none", 0)]
  /\ rotated = [u \in Users |-> 0]
  /\ exchanged = {}
  /\ superseded = {}

Next ==
  \/ \E t \in Turns, u \in Users : TurnStart(t, u)
  \/ \E t \in Turns : CheckMarkerGet(t)
  \/ \E t \in Turns : CheckMarkerDelete(t)
  \/ \E t \in Turns : TurnLookup(t)
  \/ \E t \in Turns : TurnExchange(t)
  \/ \E t \in Turns : TurnPersist(t)
  \/ \E t \in Turns : TurnDiscover(t)
  \/ \E t \in Turns : TurnFail(t)
  \/ \E t \in Turns : TurnWriteCall(t)
  \/ \E t \in Turns : TurnAuthCall(t)
  \/ \E c \in Callbacks : CbStart(c)
  \/ \E c \in Callbacks : CbDeleteNonce(c)
  \/ \E c \in Callbacks : CbExchange(c)
  \/ \E c \in Callbacks : CbStore(c)
  \/ \E c \in Callbacks : CbMarker(c)
  \/ DashStart
  \/ DashExchange
  \/ DashStore
  \/ DashNonce
  \/ Revoke
  \/ Tick

Spec == Init /\ [][Next]_vars

\* The payload is one generate_portal_url makes: a user id, an exp of ten
\* minutes after the minting, and a display name that is not empty if any.
AgentPayload(p) ==
  /\ HasKey(p, "slack_user_id") /\ HasKey(p, "exp")
  /\ Get(p, "exp").n >= JwtTtl
  /\ HasKey(p, "display_name") => Get(p, "display_name").s # ""

\* The agent mints the token of the payload.
JIssueAgent ==
  /\ jpc = "start"
  /\ AgentPayload(jpayload)
  /\ jtoken' = generate_portal_url(Get(jpayload, "slack_user_id").s, PORTAL_SIGNING_SECRET,
                                   IF HasKey(jpayload, "display_name")
                                   THEN Get(jpayload, "display_name").s ELSE "",
                                   Get(jpayload, "exp").n - JwtTtl)
  /\ jpc' = "agent_issued"
  /\ UNCHANGED <<jpayload, jtampered, jnow, jres>>

\* The portal validates the agent's token.
JValidateAgent ==
  /\ jpc = "agent_issued"
  /\ \E now \in JTimes :
       /\ jnow' = now
       /\ jres' = validate_jwt(jtoken, PORTAL_SIGNING_SECRET, now)
  /\ jpc' = "agent_validated"
  /\ UNCHANGED <<jpayload, jtoken, jtampered>>

\* The codec alone: nothing is deployed, no request is served.
JInit ==
  /\ jpc = "start"
  /\ jpayload \in JPayloads
  /\ jtoken = <<>>
  /\ jtampered = FALSE
  /\ jnow = 0
  /\ jres = NoResult
  /\ clock = 0
  /\ rec = [u \in Users |-> NoRecord]
  /\ nonces = [n \in NonceIds |-> None]
  /\ marker = [u \in Users |-> 0]
  /\ nonceCount = 0
  /\ live = {}
  /\ issued = 0
  /\ turn = [t \in Turns |-> IdleTurn]
  /\ cb = [c \in Callbacks |-> IdleCb]
  /\ dash = IdleDash
  /\ rv = NoRevoke
  /\ ops = 0
  /\ answers = <<>>
  /\ readings = <<>>
  /\ issuedTo = [n \in NonceIds |-> None]
  /\ passed = {}
  /\ refused = {}
  /\ lastWrite = [u \in Users |-> Write("none", 0)]
  /\ rotated = [u \in Users |-> 0]
  /\ exchanged = {}
  /\ superseded = {}

JNext ==
  /\ JIssue \/ JTamper \/ JValidate \/ JIssueAgent \/ JValidateAgent
  /\ UNCHANGED <<svars, pvars, ops, tvars, hvars>>

SpecJwt == JInit /\ [][JNext]_vars

(***************************************************************************)
(* The portal flow when no external call fails: the steps of the dashboard *)
(* and of the callback, each with the outcome of a store, KMS or provider   *)
(* call that succeeds.  A dashboard request carries a valid token; a        *)
(* callback carries a code and a state that a dashboard issued.             *)
(***************************************************************************)
FlowDash ==
  /\ DashStart
  /\ dash'.pc # "done" /\ ~dash'.jc
  /\ dash'.rt = lookup_user_token(rec[dash'.user], TRUE)

\* The render of the callback's redirect: /?token=...&just_connected=atlassian
FlowRedirect ==
  /\ DashStart
  /\ dash'.pc # "done" /\ dash'.jc
  /\ \E c \in Callbacks :
       cb[c].pc = "done" /\ cb[c].status = 302 /\ cb[c].user = dash'.user

FlowVerify == DashExchange /\ dash'.exch

FlowVerifyStore == DashStore /\ dash'.connected

FlowDashNonce == DashNonce /\ dash'.status = 200

FlowCbStart(c) == CbStart(c) /\ cb'[c].pc = "nonce_delete"

FlowCbDeleteNonce(c) == CbDeleteNonce(c) /\ cb'[c].pc = "exchange"

FlowCbExchange(c) == CbExchange(c) /\ cb'[c].pc = "store"

FlowCbStore(c) == CbStore(c) /\ cb'[c].pc = "marker"

FlowCbMarker(c) == CbMarker(c) /\ cb'[c].marked

FlowNext ==
  \/ FlowDash
  \/ FlowRedirect
  \/ FlowVerify
  \/ FlowVerifyStore
  \/ FlowDashNonce
  \/ \E c \in Callbacks : FlowCbStart(c)
  \/ \E c \in Callbacks : FlowCbDeleteNonce(c)
  \/ \E c \in Callbacks : FlowCbExchange(c)
  \/ \E c \in Callbacks : FlowCbStore(c)
  \/ \E c \in Callbacks : FlowCbMarker(c)
  \/ Tick

\* A handler that has begun runs to its end: the Lambda invocation goes on
\* to its next store, KMS or provider call, and that call returns.
FlowFairness ==
  /\ WF_vars(FlowVerify) /\ WF_vars(FlowVerifyStore) /\ WF_vars(FlowDashNonce)
  /\ \A c \in Callbacks :
       /\ WF_vars(FlowCbDeleteNonce(c)) /\ WF_vars(FlowCbExchange(c))
       /\ WF_vars(FlowCbStore(c)) /\ WF_vars(FlowCbMarker(c))

SpecFlow == Init /\ [][FlowNext]_vars /\ FlowFairness

(***************************************************************************)
(* Claims about the codec, under SpecJwt.                                  *)
(***************************************************************************)
JValidated == jpc = "validated"
JHasUser == HasKey(jpayload, "slack_user_id")
JHasExp == HasKey(jpayload, "exp")
JExp == Get(jpayload, "exp").n
JReturnsIssued == jres.status = "ok" /\ AsMap(jres.payload) = AsMap(jpayload)

\* C7: round trip.  Whenever an untampered token made by create_jwt from a
\* payload with a user id and an exp later than the time of validation has
\* been validated under the same secret, validate_jwt returned a claims map
\* equal to the payload issued.
C7_RoundTrip ==
  (JValidated /\ ~jtampered /\ JHasUser /\ JHasExp /\ JExp > jnow) => JReturnsIssued

\* A round trip has happened, with a payload segment whose length is a
\* multiple of four (validate_jwt then appends four pads).
C7_Witness ==
  /\ JValidated /\ ~jtampered /\ JHasUser /\ JHasExp /\ JExp > jnow
  /\ JReturnsIssued
  /\ Len(Split(jtoken)[2]) % 4 = 0

\* C8: tamper rejection.  Whenever a token made by create_jwt, with one
\* character of one of its three segments replaced by a different
\* character, has been validated, validate_jwt did not return claims.
C8_TamperRejected ==
  (JValidated /\ jtampered) => jres.status # "ok"

\* A tampered token whose payload would still be in date was refused for
\* its signature.
C8_Witness ==
  /\ JValidated /\ jtampered /\ JHasExp /\ JExp >= jnow
  /\ jres.status = "ValueError" /\ jres.why = "Invalid JWT signature"

\* C9: expiry rule.  A correctly signed token is refused when its payload
\* has no exp or when the time is strictly greater than exp, and yields its
\* claims when the time is at most exp.
C9_ExpiryRule ==
  (JValidated /\ ~jtampered) =>
     /\ ~JHasExp => (jres.status = "ValueError" /\ jres.why = "JWT missing expiration")
     /\ (JHasExp /\ jnow > JExp) =>
          (jres.status = "ValueError" /\ jres.why = "JWT token expired")
     /\ (JHasExp /\ jnow <= JExp) => JReturnsIssued

\* A token issued already expired (exp = now - 1) was refused as expired.
C9_Witness ==
  /\ JValidated /\ ~jtampered /\ JHasExp /\ JExp = jnow - 1
  /\ jres.status = "ValueError" /\ jres.why = "JWT token expired"

(***************************************************************************)
(* Claims about the token lifecycle, under Spec.                           *)
(***************************************************************************)
CsrfRejected(r) ==
  r.pc = "done" /\ r.status = 400 /\ r.why = "CSRF validation failed"

\* C1: nonce one-time use.  A callback request that presents a nonce which
\* an earlier callback request has already passed the CSRF check with (and
\* so deleted) is rejected with HTTP 400 and a CSRF-validation error.
C1_NonceOneTimeUse ==
  \A c \in Callbacks : cb[c].replay => CsrfRejected(cb[c])

\* The second of two callbacks with the same state/nonce pair has been
\* rejected, the first having passed the check for the nonce's owner.
C1_Witness ==
  \E c \in Callbacks :
    /\ cb[c].replay /\ CsrfRejected(cb[c])
    /\ cb[c].user = issuedTo[cb[c].nonce]

CrossUser(r) ==
  /\ r.pc # "idle" /\ r.nonce # 0
  /\ issuedTo[r.nonce] # None /\ issuedTo[r.nonce] # r.user

\* C2: nonce cross-user.  A callback whose state names a user other than
\* the one the presented nonce was stored for is rejected with HTTP 400 and
\* a CSRF-validation error at the nonce check: it is never at the nonce
\* delete, the code exchange or the record write.
C2_NonceCrossUser ==
  \A c \in Callbacks : CrossUser(cb[c]) => CsrfRejected(cb[c])

\* A callback naming another user than the owner of a nonce that is still
\* in the store has been rejected.
C2_Witness ==
  \E c \in Callbacks :
    /\ CrossUser(cb[c]) /\ CsrfRejected(cb[c])
    /\ nonces[cb[c].nonce] = issuedTo[cb[c].nonce]

\* C3: token rotation.  Once build_atlassian_rest_tools has exchanged the
\* stored refresh token of a user for a new one and has called
\* update_user_refresh_token, and as long as nothing else has written the
\* record, a lookup of that user returns the new refresh token.
C3_LookupReturnsRotated ==
  \A u \in Users : rotated[u] # 0 => lookup_user_token(rec[u], TRUE) = rotated[u]

\* C4 as stated: no agent turn and no dashboard status check sends to the
\* token endpoint a refresh token that has already been exchanged.
C4_NeverResent ==
  /\ \A t \in Turns : ~turn[t].resent
  /\ ~dash.resent

\* C4: no agent turn and no dashboard status check that looks the record
\* up after a rotated refresh token has been stored in place of an
\* exchanged one gets, and so sends, the exchanged token.
C4_NoStaleRead ==
  /\ \A t \in Turns : turn[t].fresh
  /\ dash.fresh

\* A turn has looked up and exchanged the token that a rotation stored.
C4_Witness ==
  \E t \in Turns :
    /\ turn[t].after \in {"agent_rotate", "dashboard_rotate"}
    /\ turn[t].rt # 0 /\ turn[t].fresh /\ turn[t].acc # 0
    /\ superseded # {}

LookupAfterRevoke ==
  \A t \in Turns :
    turn[t].after = "revoke" =>
      /\ turn[t].rt = 0
      /\ turn[t].pc = "ready" /\ turn[t].auth /\ ~turn[t].write

\* C5 as stated: after a revoke answered 302 for a user, and before any
\* other write to that user's record, a lookup returns absent and every
\* dashboard render for the user reports not connected.
C5_RevokedAnyRender ==
  /\ LookupAfterRevoke
  /\ dash.after = "revoke" => ~dash.connected

\* C5: after a revoke answered 302 for a user, and before any other write
\* to that user's record, a lookup returns absent and a dashboard render
\* for the user that does not carry just_connected=atlassian reports not
\* connected.
C5_Revoked ==
  /\ LookupAfterRevoke
  /\ (dash.after = "revoke" /\ ~dash.jc) => (~dash.connected /\ dash.rt = 0)

\* A user whose record a callback had stored has revoked, and the page
\* rendered next reports not connected.
C5_Witness ==
  /\ dash.pc = "done" /\ dash.status = 200
  /\ dash.after = "revoke" /\ ~dash.jc /\ ~dash.connected
  /\ rv.status = 302 /\ rv.user = dash.user
  /\ \E c \in Callbacks : cb[c].status = 302 /\ cb[c].user = dash.user

\* C6: mutual exclusivity.  No turn's tool list holds both the
\* request_atlassian_authorization tool and the atlassian_user_* tools.
C6_MutualExclusivity ==
  \A t \in Turns : ~(turn[t].write /\ turn[t].auth)

\* One turn has the write tools and not the auth tool.
C6_Witness ==
  \E t \in Turns : turn[t].pc = "ready" /\ turn[t].write /\ ~turn[t].auth

\* C10: persist before use.  In a turn whose refresh exchange returned a
\* new refresh token, a provider API call has been made only if the new
\* token was stored.
C10_PersistBeforeUse ==
  \A t \in Turns : (turn[t].newrt # 0 /\ turn[t].called) => turn[t].persisted

TransientErrors == {"exchange_500", "exchange_network", "discover_500", "discover_network"}

\* C11: stale-token cleanup.  A turn whose tool setup failed for a
\* transient reason (network error, timeout, 5xx answer) has not deleted
\* the stored record.
C11_TransientKeepsRecord ==
  \A t \in Turns : turn[t].err \in TransientErrors => turn[t].cleanup # "deleted"

\* C12: private delivery.  The result of request_atlassian_authorization
\* handed to the agent never holds the portal URL.
C12_LinkNeverInResult ==
  \A t \in Turns : turn[t].link # "result"

\* The callback is past the CSRF check: at the code exchange or later, or
\* answered with something else than 400.
PastCsrf(r) ==
  \/ r.pc \in {"exchange", "store", "marker"}
  \/ r.pc = "done" /\ r.input = "ok" /\ r.status \in {302, 500}

\* C13: nonce consumption is unconditional.  The nonce of a callback that
\* passed the CSRF check is absent from the store from then on, whatever
\* the code exchange, the discovery, the encryption and the record write do.
C13_NonceConsumed ==
  /\ \A c \in Callbacks : PastCsrf(cb[c]) => nonces[cb[c].nonce] = None
  /\ \A n \in passed : nonces[n] = None

\* A callback passed the CSRF check and then failed with 500; its nonce is
\* gone although no record was written by it.
C13_Witness ==
  \E c \in Callbacks :
    /\ cb[c].pc = "done" /\ cb[c].status = 500
    /\ cb[c].nonce \in passed /\ nonces[cb[c].nonce] = None

\* C14: callback outcome.  A callback answers 302 only after its code
\* exchange, discovery, encryption and record write succeeded; a request
\* without code or state, with a state that does not decode, or failing
\* the CSRF check is answered 400; a failed exchange, discovery, encryption
\* or record write is answered 500.
C14_CallbackOutcome ==
  \A c \in Callbacks :
    cb[c].pc = "done" =>
      /\ cb[c].status = 302 => cb[c].stored /\ cb[c].rt # 0
      /\ cb[c].input \in {"missing", "bad_state"} => cb[c].status = 400
      /\ cb[c].why = "CSRF validation failed" => cb[c].status = 400
      /\ cb[c].why \in {"Failed to exchange OAuth code",
                        "Failed to fetch Atlassian resources",
                        "Encryption failed", "Failed to store tokens"}
           => cb[c].status = 500

\* C15: record lifecycle.  Every record in the store was put there by a
\* callback: a rotation update applied when there is no record creates
\* none, so no record is without the attributes only the callback writes.
C15_RecordOnlyFromCallback ==
  \A u \in Users : rec[u].present => rec[u].full

\* The turn lost a rotation race: the provider rejected its exchange of a
\* token that another invocation had exchanged before.
LostRace(r) == r.pc = "ready" /\ r.err = "exchange_403" /\ r.resent

\* C16: the rotation race degrades to a re-prompt.  Of two turns that read
\* the same stored token the provider rotates for at most one; the turn
\* whose exchange is rejected has called the exchange once, has called
\* delete_user_token, holds no access token and registers the auth tool and
\* no write tool.
C16_RaceReprompts ==
  /\ \A t \in Turns : turn[t].attempts <= 1
  /\ \A t1, t2 \in Turns :
       t1 # t2 /\ turn[t1].rt # 0 /\ turn[t1].rt = turn[t2].rt
         => turn[t1].newrt = 0 \/ turn[t2].newrt = 0
  /\ \A t \in Turns :
       LostRace(turn[t]) =>
         /\ turn[t].attempts = 1
         /\ turn[t].cleanup \in {"deleted", "failed"}
         /\ turn[t].acc = 0 /\ turn[t].newrt = 0
         /\ turn[t].auth /\ ~turn[t].write

\* Two turns read the same token; one got it rotated, the other was
\* rejected and deleted the record.
C16_Witness ==
  \E t1, t2 \in Turns :
    /\ t1 # t2 /\ turn[t1].rt # 0 /\ turn[t1].rt = turn[t2].rt
    /\ turn[t1].newrt # 0
    /\ LostRace(turn[t2]) /\ turn[t2].cleanup = "deleted"

\* C17: the completion marker is observed at most once.  No two calls of
\* check_and_cleanup_auth_prompt return true for the same marker item.
C17_MarkerSeenOnce ==
  \A t1, t2 \in Turns :
    t1 # t2 /\ turn[t1].completed /\ turn[t2].completed
      => turn[t1].saw # turn[t2].saw

\* The step writes a marker item.
MarkerWritten(u) == marker'[u] # marker[u] /\ marker'[u] # 0

ReadPresent(r) == r.after \in {"callback", "agent_rotate", "dashboard_rotate"}

\* C19: lookup fails open.  lookup_user_token gives a token or absence and
\* nothing else; the lookup leaves the record as it is; a turn that got
\* absence, the record missing or the read or decrypt failing, exchanges
\* nothing, deletes nothing and registers the auth tool and no write tool.
C19_LookupFailsOpen ==
  /\ [](\A t \in Turns :
          /\ turn[t].rt \in Tokens \cup {0}
          /\ turn[t].pc = "ready" /\ turn[t].rt = 0
               => /\ turn[t].auth /\ ~turn[t].write
                  /\ turn[t].attempts = 0 /\ turn[t].cleanup = "none"
                  /\ turn[t].acc = 0)
  /\ [][\A t \in Turns :
          turn[t].pc = "lookup" /\ turn'[t].pc # "lookup"
            => /\ rec' = rec
               /\ turn'[t].rt = 0 => turn'[t].pc = "ready"]_vars

\* A turn's lookup failed on a record that was, and still is, in the store:
\* the turn has the auth tool and no write tool.
C19_Witness ==
  \E t \in Turns :
    /\ turn[t].pc = "ready" /\ turn[t].rt = 0 /\ ReadPresent(turn[t])
    /\ lastWrite[turn[t].user].op = turn[t].after
    /\ rec[turn[t].user].present
    /\ turn[t].auth /\ ~turn[t].write

\* The dashboard request, authenticated and without just_connected, is past
\* its connection check.
Checked(d) == d.pc \in {"nonce", "done"} /\ d.user # None /\ ~d.jc

\* C20 as stated: a dashboard request without just_connected reports
\* connected exactly when it read a record and the refresh exchange with
\* the record's token succeeded.
C20_ConnectedIffExchanged ==
  Checked(dash) => (dash.connected <=> dash.rt # 0 /\ dash.exch)

\* C20, amended: the request reports connected exactly when it read a
\* record, the exchange succeeded and, if the provider gave a rotated
\* token, the write of that token was done: the write step reports
\* connected exactly when it leaves the record holding the encryption of
\* the rotated token, and a request that read no record or whose exchange
\* failed reports not connected.
C20_LiveCheck ==
  /\ [](Checked(dash) =>
          /\ dash.connected => dash.rt # 0 /\ dash.exch
          /\ dash.exch /\ dash.newrt = 0 => dash.connected)
  /\ [][dash.pc = "verify_store" /\ dash'.pc # "verify_store"
          => /\ dash'.connected <=>
                  /\ rec'[dash.user].present
                  /\ rec'[dash.user].rt = encrypt_value(dash.newrt)
             /\ ~dash'.connected => rec' = rec]_vars

\* A page reports connected after a check that rotated the token, and the
\* record holds the rotated token.
C20_Witness ==
  /\ dash.pc = "done" /\ dash.status = 200 /\ ~dash.jc
  /\ dash.connected /\ dash.newrt # 0
  /\ rec[dash.user].rt = encrypt_value(dash.newrt)

\* The callback is between its CSRF check and its answer.
InCallback(r) == r.pc \in {"nonce_delete", "exchange", "store", "marker"}

\* The callback answered 302 and its user has an encrypted record.
Connected302(r) ==
  /\ r.pc = "done" /\ r.status = 302 /\ r.stored
  /\ rec[r.user].present /\ rec[r.user].full
  /\ rec[r.user].rt.ct /\ rec[r.user].at.ct

\* C21: the full flow completes.  When no external call fails, a callback
\* that came with a code and the state a dashboard issued always ends with
\* 302 and an encrypted record stored for the state's user; that state
\* decodes to the user the dashboard served and to the nonce it stored; the
\* token of the redirect is valid when it is made, and the render of the
\* redirect answers 200 and reports connected.
C21_FullFlow ==
  /\ \A c \in Callbacks : InCallback(cb[c]) ~> Connected302(cb[c])
  /\ [](\A c \in Callbacks :
          InCallback(cb[c]) => cb[c].user = issuedTo[cb[c].nonce])
  /\ [](\A at \in ClockValues :
          LET a == answers[Handoff("callback", "UA", at), at]
          IN  a.status = 0 /\ a.user = "UA")
  /\ (dash.pc = "nonce") ~> (dash.pc = "done" /\ dash.status = 200)
  /\ [](dash.pc = "done" /\ dash.jc => dash.status = 200 /\ dash.connected)

\* The flow is over: the callback answered 302, the record is stored for
\* the user the dashboard served, and the render of the redirect reports
\* connected.
C21_Witness ==
  \E c \in Callbacks :
    /\ Connected302(cb[c]) /\ cb[c].user = issuedTo[cb[c].nonce]
    /\ rec[cb[c].user].rt = encrypt_value(cb[c].rt)
    /\ dash.pc = "done" /\ dash.status = 200 /\ dash.jc /\ dash.connected
    /\ dash.user = cb[c].user

\* C22: unauthenticated requests.  A dashboard or revoke request whose
\* token is missing or does not validate to a user is answered 400 (no
\* token) or 401 (token refused), and the request changes nothing in the
\* store and at the provider.
C22_DeniedIs400Or401 ==
  /\ [](/\ dash.pc = "done" /\ dash.user = None => dash.status \in {400, 401}
        /\ rv.status # 0 /\ rv.user = None => rv.status \in {400, 401})
  /\ [][(dash'.pc = "done" /\ dash'.user = None /\ dash' # dash)
          \/ (rv'.status # 0 /\ rv'.user = None /\ rv' # rv)
        => UNCHANGED <<svars, hvars>>]_vars

\* C23: no exception escapes the portal.  An exception that no handler
\* catches is answered by lambda_handler with 500 and a body that holds
\* nothing of the exception.
C23_GenericBody ==
  /\ \A c \in Callbacks :
       cb[c].pc = "done" /\ cb[c].why = "Internal server error"
         => cb[c].status = 500 /\ cb[c].detail = ""
  /\ dash.pc = "done" /\ dash.user = None /\ dash.status \notin {400, 401}
       => dash.status = 500 /\ dash.detail = ""
  /\ rv.user = None /\ rv.status \notin {0, 400, 401}
       => rv.status = 500 /\ rv.detail = ""

\* What validate_jwt gives for the token create_jwt makes of the payload.
PortalIssued == validate_jwt(create_jwt(jpayload, PORTAL_SIGNING_SECRET),
                             PORTAL_SIGNING_SECRET, jnow)

\* C24: agent-minted tokens.  A token minted by generate_portal_url under
\* the portal's secret yields, until its exp, the user id, display name and
\* exp that were minted, and at any time what validate_jwt gives for the
\* token create_jwt makes of the same claims.
C24_AgentTokenAccepted ==
  jpc = "agent_validated" =>
    /\ jnow <= Get(jpayload, "exp").n
         => jres.status = "ok" /\ AsMap(jres.payload) = AsMap(jpayload)
    /\ jres.status = PortalIssued.status /\ jres.why = PortalIssued.why
    /\ AsMap(jres.payload) = AsMap(PortalIssued.payload)

\* An agent-minted token with a display name was accepted in the last
\* second of its ten minutes.
C24_Witness ==
  /\ jpc = "agent_validated" /\ jnow = Get(jpayload, "exp").n
  /\ HasKey(jpayload, "display_name")
  /\ jres.status = "ok" /\ AsMap(jres.payload) = AsMap(jpayload)

\* The attribute is missing or holds a ciphertext.
NotPlain(x) == x.ct \/ x = NoCipher

\* C25: no plaintext token at rest.  The refresh-token and access-token
\* attributes of every stored record hold ciphertexts made by the KMS
\* encrypt call, whoever wrote the record last: the callback, the
\* dashboard's verification or the agent's rotation.
C25_NoPlaintextAtRest ==
  \A u \in Users :
    /\ NotPlain(rec[u].rt) /\ NotPlain(rec[u].at)
    /\ rec[u].present => rec[u].rt.ct /\ rec[u].rt.tok \in Tokens

\* A record last written by the agent's rotation holds the ciphertext of
\* the rotated token.
C25_Witness ==
  \E u \in Users, t \in Turns :
    /\ rec[u].present /\ lastWrite[u].op = "agent_rotate"
    /\ turn[t].user = u /\ turn[t].persisted
    /\ rec[u].rt = encrypt_token(turn[t].newrt) /\ rec[u].rt.ct

\* C26: nonce one-time use under concurrency.  Of the callbacks that
\* present the same nonce, at most one is past the CSRF check.
C26_OnePassesPerNonce ==
  \A c1, c2 \in Callbacks :
    c1 # c2 /\ PastCsrf(cb[c1]) /\ PastCsrf(cb[c2])
      => cb[c1].nonce # cb[c2].nonce

\* C27: the stale-token cleanup removes only the token that failed.  When a
\* turn whose exchange was rejected deletes the record, the record, if
\* there is one, holds the refresh token the turn read at its lookup.
C27_DeletesOnlyWhatItRead ==
  [][\A t \in Turns :
       /\ turn[t].pc = "fail" /\ turn[t].err = "exchange_403"
       /\ turn'[t].cleanup = "deleted"
       /\ rec[turn[t].user].present
       => decrypt_token(rec[turn[t].user].rt) = turn[t].rt]_vars

\* C28: record provenance.  A callback that has written a record for a
\* user consumed a nonce that a dashboard request, authenticated as that
\* user, had stored; no user has a record without a nonce issued to that
\* user having passed a callback's CSRF check.
C28_RecordProvenance ==
  /\ \A c \in Callbacks :
       cb[c].stored =>
         /\ issuedTo[cb[c].nonce] = cb[c].user
         /\ cb[c].nonce \in passed /\ nonces[cb[c].nonce] = None
  /\ \A u \in Users :
       rec[u].present => \E n \in passed : issuedTo[n] = u

\* A callback has written the record of the user whose dashboard request
\* stored the nonce it consumed.
C28_Witness ==
  \E c \in Callbacks :
    /\ cb[c].stored /\ cb[c].pc = "marker"
    /\ issuedTo[cb[c].nonce] = cb[c].user /\ cb[c].nonce \in passed
    /\ rec[cb[c].user] = PutRecord(encrypt_value(cb[c].rt), encrypt_value(cb[c].acc))

\* The callback was answered 400 or 500.
CbFailed(r) == r.pc = "done" /\ r.status \in {400, 500}

C30_RefusalKeepsNonce ==
  /\ [](\A n \in refused \ passed : nonces[n] # None /\ nonces[n] = issuedTo[n])
  /\ [][refused' # refused => nonces' = nonces]_vars

\* A callback of the nonce's owner passed the CSRF check with a nonce that
\* had been refused to another user's callback before it started.
C30_Witness ==
  \E c \in Callbacks :
    /\ cb[c].retry /\ ~cb[c].replay
    /\ PastCsrf(cb[c])
    /\ cb[c].nonce \in refused \cap passed
    /\ issuedTo[cb[c].nonce] = cb[c].user

====
